---- MODULE Spec2Model ----
(***************************************************************************)
(* Model of the scheduling core of src/simple-git.ts: the SimpleGit class  *)
(* with its bounded-concurrency task queue (process), the promise chain of *)
(* callback-style tasks (processChain) and the public operations that      *)
(* route a task to one or the other.                                       *)
(*                                                                         *)
(* JavaScript values are records [type, id, items] so that any two values  *)
(* can be compared: a scalar has items = <<>>, an array has type "array".  *)
(***************************************************************************)
EXTENDS Integers, Sequences, FiniteSets, TLC

\* ------------------------------------------------------------------ bounds
MaxConcurrency == 2     \* concurrency values 1..MaxConcurrency are explored
MaxGroup == 2           \* largest array of tasks handed to process
MaxDirect == 1          \* number of direct (promise style) submissions
MaxChain == 2           \* number of processChain calls

\* ------------------------------------------------------------------ values
Scalar(tag, id) == [type |-> tag, id |-> id, items |-> <<>>]

Arr(items) == [type |-> "array", id |-> 0, items |-> items]

null == Scalar("null", 0)

undefined == Scalar("undefined", 0)

\* util/arguments: the type tag of arrays and the type tag of a value
arrType == "[object Array]"

varType(v) == IF v.type = "array" THEN arrType ELSE "[object Object]"

\* A task: command (identified by id), optional parser, optional handler
Task(id, parser, handler) ==
    [type |-> "task", id |-> id, parser |-> parser, handler |-> handler]

isAsyncHandler(task) == task.handler

\* What runner.run resolves with / rejects with for a task
RunnerData(task) == Scalar("raw", task.id)

RunnerError(task) == Scalar("err", task.id)

\* The parser of a task turns the raw output into a summary
Parse(data) == Scalar("parsed", data.id)

\* The error a throwing handler of task id raises
HandlerError(id) == Scalar("thrown", id)

\* results.push(task.parser ? task.parser(data) : data)  /  push(undefined)
TaskResult(task, success) ==
    IF success
    THEN (IF task.parser THEN Parse(RunnerData(task)) ELSE RunnerData(task))
    ELSE undefined

firstResult(items) ==
    IF varType(items) = arrType
    THEN (IF Len(items.items) > 0 THEN items.items[1] ELSE undefined)
    ELSE undefined

\* data[0] in JavaScript: the first element of an array, the first
\* character of a string, undefined for anything else
Index0(data) ==
    IF data.type = "array"
    THEN (IF Len(data.items) > 0 THEN data.items[1] ELSE undefined)
    ELSE IF data.type = "raw" THEN Scalar("char", data.id)
    ELSE undefined

\* ------------------------------------------------------------------ promises
Unsettled == [state |-> "pending", value |-> undefined]

Resolved(v) == [state |-> "resolved", value |-> v]

Rejected(e) == [state |-> "rejected", value |-> e]

\* (variant: a later ok or fail overwrites the outcome)
SettleLast(outcome, new) == new

\* ok(v) / fail(e) of a promise: only the first settlement counts
Settle(outcome, new) == IF outcome.state = "pending" THEN new ELSE outcome

VARIABLES
    concurrency,   \* this.concurrency
    queues,        \* this.queues: indices into qs of the registered queues
    qs,            \* every queue created by process, in creation order
    pending,       \* this.pending
    conts,         \* continuations registered on this.chain, not yet run:
                   \* the task each closure captured
    chainState,    \* state of the promise the next continuation waits for
    cur,           \* the running continuation: captured task, shifted next, queue
    runLog,        \* chained tasks passed to runner.run, in invocation order
    handlerLog,    \* handler invocations, in order
    nDirect,       \* number of direct submissions made
    nChain,        \* number of processChain calls made
    returned       \* what the latest call of the caller returned

vars == <<concurrency, queues, qs, pending, conts, chainState, cur,
          runLog, handlerLog, nDirect, nChain, returned>>

\* return values: the promise of queue q, or the SimpleGit instance
ReturnPromise(q) == [kind |-> "promise", q |-> q]

ReturnThis == [kind |-> "this", q |-> 0]

NoTask == Task(0, FALSE, FALSE)

NoCur == [task |-> NoTask, next |-> NoTask, q |-> 0]

Init ==
    /\ concurrency \in 1..MaxConcurrency
    /\ queues = <<>>
    /\ qs = <<>>
    /\ pending = <<>>
    /\ conts = <<>>
    /\ chainState = "fulfilled"
    /\ cur = NoCur
    /\ runLog = <<>>
    /\ handlerLog = <<>>
    /\ nDirect = 0
    /\ nChain = 0
    /\ returned = [kind |-> "none", q |-> 0]

\* ------------------------------------------------------------------ queue
\* queue(process, this.concurrency) with its drain and error callbacks, and
\* the promise process returns for it
\* q.push(tasks) accepts one task or an array of tasks
AsArray(tasks) == IF tasks.type = "array" THEN tasks.items ELSE <<tasks>>

NewQueue(tasks) ==
    [resolveFirst |-> varType(tasks) = arrType,
     group |-> tasks.type = "array",  \* the caller passed a collection
     submitted |-> AsArray(tasks),
     waiting |-> AsArray(tasks),    \* pushed, no worker yet
     running |-> {},                \* tasks whose runner.run is in flight
     results |-> <<>>,
     failed |-> {},                 \* ids of the tasks that completed with an error
     outcome |-> Unsettled,
     scheduled |-> TRUE]            \* q.push has deferred the first q.process()

\* (variant: every waiting task starts, whatever the concurrency)
StartCountAll(q) == Len(q.waiting)

\* number of tasks the queue starts now: free worker slots, waiting tasks
StartCount(q) ==
    LET free == concurrency - Cardinality(q.running)
    IN  IF free <= 0 THEN 0
        ELSE IF free < Len(q.waiting) THEN free ELSE Len(q.waiting)

\* q.process(): hand waiting tasks to free workers, oldest first
StartWorkers(q) ==
    LET k == StartCount(q)
    IN  [q EXCEPT !.running = @ \cup {q.waiting[i] : i \in 1..k},
                  !.waiting = SubSeq(@, k + 1, Len(@))]

\* the runner.run calls StartWorkers(q) makes for chained tasks, in order
StartedIds(q) ==
    LET F[i \in 0..StartCount(q)] ==
            IF i = 0 THEN <<>>
            ELSE IF isAsyncHandler(q.waiting[i])
                 THEN Append(F[i - 1], q.waiting[i].id) ELSE F[i - 1]
    IN  F[StartCount(q)]

\* the tasks of a queue that were passed to runner.run, in invocation order
Started(q) == SubSeq(q.submitted, 1, Len(q.submitted) - Len(q.waiting))

idle(q) == q.waiting = <<>> /\ q.running = {}

RemoveAt(s, k) == SubSeq(s, 1, k - 1) \o SubSeq(s, k + 1, Len(s))

\* (variant: splice without a delete count drops the later queues as well)
onQueueCompleteTail(list, i) ==
    IF \E k \in 1..Len(list) : list[k] = i
    THEN SubSeq(list, 1, (CHOOSE k \in 1..Len(list) : list[k] = i) - 1)
    ELSE list

onQueueComplete(list, i) ==
    IF \E k \in 1..Len(list) : list[k] = i
    THEN RemoveAt(list, CHOOSE k \in 1..Len(list) : list[k] = i)
    ELSE list

\* (variant: the drain callback resolves only when there are results)
drainNonEmpty(q) ==
    IF q.results = <<>> THEN q
    ELSE [q EXCEPT !.outcome =
            Settle(@, Resolved(IF q.resolveFirst THEN firstResult(Arr(q.results))
                                                 ELSE Arr(q.results)))]

\* q.drain: ok(resolveFirst ? firstResult(results) : results)
drain(q) ==
    [q EXCEPT !.outcome =
        Settle(@, Resolved(IF q.resolveFirst THEN firstResult(Arr(q.results))
                                             ELSE Arr(q.results)))]

\* (variant: the error callback does not reject)
errorDropped(q, err) == q

\* (variant: the error callback also kills the queue, dropping waiting tasks)
errorKill(q, err) ==
    [q EXCEPT !.outcome = Settle(@, Rejected(err)), !.waiting = <<>>]

\* q.error: fail(err)
error(q, err) == [q EXCEPT !.outcome = Settle(@, Rejected(err))]

\* the worker after runner.run settled, up to callback(err)
worker(q, task, success) ==
    [q EXCEPT !.results = Append(@, TaskResult(task, success)),
              !.running = @ \ {task},
              !.failed = IF success THEN @ ELSE @ \cup {task.id}]

\* this.process(tasks): create the queue, register it, push the tasks
process(tasks) ==
    /\ qs' = Append(qs, NewQueue(tasks))
    /\ queues' = Append(queues, Len(qs) + 1)

\* The deferred turn after q.push: an empty push drains at once, otherwise
\* the first workers start
QueueTick(i) ==
    /\ qs[i].scheduled
    /\ LET q == [qs[i] EXCEPT !.scheduled = FALSE]
       IN  IF q.submitted = <<>> /\ idle(q)
           THEN /\ qs' = [qs EXCEPT ![i] = drain(q)]
                /\ queues' = onQueueComplete(queues, i)
                /\ runLog' = runLog
           ELSE /\ qs' = [qs EXCEPT ![i] = StartWorkers(q)]
                /\ queues' = queues
                /\ runLog' = runLog \o StartedIds(q)
    /\ UNCHANGED <<concurrency, pending, conts, chainState, cur,
                   handlerLog, nDirect, nChain, returned>>

\* runner.run of a task settles: the worker records the result and calls
\* back; the queue signals the error, drains when idle, starts the next task
RunnerSettle(i, task, success) ==
    /\ task \in qs[i].running
    /\ LET q1 == worker(qs[i], task, success)
           q2 == IF success THEN q1 ELSE error(q1, RunnerError(task))
           q3 == IF idle(q2) THEN drain(q2) ELSE q2
       IN  /\ qs' = [qs EXCEPT ![i] = StartWorkers(q3)]
           /\ queues' = IF ~success \/ idle(q2)
                        THEN onQueueComplete(queues, i) ELSE queues
           /\ runLog' = runLog \o StartedIds(q3)
    /\ UNCHANGED <<concurrency, pending, conts, chainState, cur,
                   handlerLog, nDirect, nChain, returned>>

\* ------------------------------------------------------------------ chain
\* (variant: takes the newest pending task instead of the oldest)
shiftNewest(list) ==
    IF list = <<>> THEN [next |-> NoTask, rest |-> <<>>]
    ELSE [next |-> list[Len(list)], rest |-> SubSeq(list, 1, Len(list) - 1)]

\* (variant: the continuation does not wait for the previous step)
chainReadyEager(state) == state # "rejected"

\* this.chain.then(...): the continuation runs once the promise it was
\* registered on is fulfilled, never when that promise is rejected
chainReady(state) == state = "fulfilled"

\* this.pending.shift()
shift(list) ==
    IF list = <<>> THEN [next |-> NoTask, rest |-> <<>>]
    ELSE [next |-> Head(list), rest |-> Tail(list)]

\* (variant: the continuation does not return the promise of its step)
stepPromiseDetached(next) == "fulfilled"

\* state of the promise a continuation returns: resolved at once when there
\* was nothing to shift, otherwise pending until process(next) and the
\* handler are through
stepPromise(next) == IF next = NoTask THEN "fulfilled" ELSE "pending"

Call(id, argc, err, data) ==
    [id |-> id, argc |-> argc, err |-> err, data |-> data]

\* (variant: hands the whole result array to the handler)
thenHandlerWhole(task, data) == Call(task.id, 2, null, data)

\* .then(data => task.handler(null, data[0]))
thenHandler(task, data) == Call(task.id, 2, null, Index0(data))

\* .catch(err => task.handler(err))
catchHandler(task, err) == Call(task.id, 1, err, undefined)

\* (variant: the task is put at the front of the pending list)
processChainUnshift(task) ==
    /\ pending' = <<task>> \o pending
    /\ conts' = Append(conts, task)

\* this.processChain(task): append the task, extend the chain
processChain(task) ==
    /\ pending' = Append(pending, task)
    /\ conts' = Append(conts, task)

\* A continuation of the chain runs: shift the oldest pending task and
\* process it as a single task
ChainThen ==
    /\ chainReady(chainState)
    /\ conts # <<>>
    /\ LET task == Head(conts)
           s == shift(pending)
       IN  /\ conts' = Tail(conts)
           /\ pending' = s.rest
           /\ chainState' = stepPromise(s.next)
           /\ IF s.next = NoTask
              THEN UNCHANGED <<qs, queues, cur>>
              ELSE /\ process(s.next)
                   /\ cur' = [task |-> task, next |-> s.next, q |-> Len(qs) + 1]
    /\ UNCHANGED <<concurrency, runLog, handlerLog, nDirect, nChain, returned>>

\* The promise of process(next) has settled: the handler of the captured
\* task is called; a handler that throws on the success path is called again
\* by the catch; a throw out of the catch rejects the chain
ChainSettle(throws1, throws2) ==
    /\ cur.q # 0
    /\ qs[cur.q].outcome.state # "pending"
    /\ LET o == qs[cur.q].outcome
           ok == o.state = "resolved"
           calls == IF ok
                    THEN <<thenHandler(cur.task, o.value)>> \o
                         (IF throws1
                          THEN <<catchHandler(cur.task, HandlerError(cur.task.id))>>
                          ELSE <<>>)
                    ELSE <<catchHandler(cur.task, o.value)>>
           threw == IF ok THEN throws1 /\ throws2 ELSE throws1
       IN  /\ handlerLog' = handlerLog \o calls
           /\ chainState' = IF threw THEN "rejected" ELSE "fulfilled"
    /\ cur' = NoCur
    /\ UNCHANGED <<concurrency, queues, qs, pending, conts, runLog,
                   nDirect, nChain, returned>>

\* ------------------------------------------------------------------ dispatcher
\* commands/clone and commands/status: the task builders
clone(id, callback) == Task(id, FALSE, callback)

status(id, callback) == Task(id, TRUE, callback)

DirectId(pos) == 10 * (nDirect + 1) + pos

\* (variant: the promise branch does not return and falls through to the chain)
DispatchFallThrough(task) ==
    IF ~isAsyncHandler(task)
    THEN /\ nDirect < MaxDirect
         /\ process(task)
         /\ processChain(task)
         /\ returned' = ReturnThis
         /\ nDirect' = nDirect + 1
         /\ UNCHANGED nChain
    ELSE /\ nChain < MaxChain
         /\ processChain(task)
         /\ returned' = ReturnThis
         /\ nChain' = nChain + 1
         /\ UNCHANGED <<qs, queues, nDirect>>

\* if (!isAsyncHandler(task)) return this.process(task);
\* return this.processChain(task);
Dispatch(task) ==
    IF ~isAsyncHandler(task)
    THEN /\ nDirect < MaxDirect
         /\ process(task)
         /\ returned' = ReturnPromise(Len(qs) + 1)
         /\ nDirect' = nDirect + 1
         /\ UNCHANGED <<pending, conts, nChain>>
    ELSE /\ nChain < MaxChain
         /\ processChain(task)
         /\ returned' = ReturnThis
         /\ nChain' = nChain + 1
         /\ UNCHANGED <<qs, queues, nDirect>>

Clone(callback) ==
    /\ Dispatch(clone(IF callback THEN nChain + 1 ELSE DirectId(1), callback))
    /\ UNCHANGED <<concurrency, chainState, cur, runLog, handlerLog>>

Status(callback) ==
    /\ Dispatch(status(IF callback THEN nChain + 1 ELSE DirectId(1), callback))
    /\ UNCHANGED <<concurrency, chainState, cur, runLog, handlerLog>>

\* process called with an array of n direct tasks; the tasks at odd
\* positions have a parser
ProcessGroup(n) ==
    /\ nDirect < MaxDirect
    /\ process(Arr([p \in 1..n |-> Task(DirectId(p), p % 2 = 1, FALSE)]))
    /\ returned' = ReturnPromise(Len(qs) + 1)
    /\ nDirect' = nDirect + 1
    /\ UNCHANGED <<concurrency, pending, conts, chainState, cur, runLog,
                   handlerLog, nChain>>

Next ==
    \/ \E callback \in BOOLEAN : Clone(callback)
    \/ \E callback \in BOOLEAN : Status(callback)
    \/ \E n \in 0..MaxGroup : ProcessGroup(n)
    \/ \E i \in 1..Len(qs) : QueueTick(i)
    \/ \E i \in 1..Len(qs) : \E task \in qs[i].running :
          \E success \in BOOLEAN : RunnerSettle(i, task, success)
    \/ ChainThen
    \/ \E throws1, throws2 \in BOOLEAN : ChainSettle(throws1, throws2)

Spec == Init /\ [][Next]_vars

\* Every started step eventually completes: the deferred queue turn runs,
\* every runner.run call settles, promise reactions run
FairSpec ==
    /\ Spec
    /\ WF_vars(\E i \in 1..Len(qs) : QueueTick(i))
    /\ WF_vars(\E i \in 1..Len(qs) : \E task \in qs[i].running :
                  \E success \in BOOLEAN : RunnerSettle(i, task, success))
    /\ WF_vars(ChainThen)
    /\ WF_vars(\E throws1, throws2 \in BOOLEAN : ChainSettle(throws1, throws2))

\* The task queue and its callers for the progress of a queue: promise style
\* calls, callback style clone calls whose handlers return, and every started
\* queue turn, Runner call and promise reaction eventually completes
NextQueue ==
    \/ \E callback \in BOOLEAN : Clone(callback)
    \/ Status(FALSE)
    \/ \E n \in 0..MaxGroup : ProcessGroup(n)
    \/ \E i \in 1..Len(qs) : QueueTick(i)
    \/ \E i \in 1..Len(qs) : \E task \in qs[i].running :
          \E success \in BOOLEAN : RunnerSettle(i, task, success)
    \/ ChainThen
    \/ ChainSettle(FALSE, FALSE)

QueueFairSpec ==
    /\ Init
    /\ [][NextQueue]_vars
    /\ WF_vars(\E i \in 1..Len(qs) : QueueTick(i))
    /\ WF_vars(\E i \in 1..Len(qs) : \E task \in qs[i].running :
                  \E success \in BOOLEAN : RunnerSettle(i, task, success))
    /\ WF_vars(ChainThen)
    /\ WF_vars(ChainSettle(FALSE, FALSE))

\* ------------------------------------------------------------------ properties
QIds == 1..Len(qs)

\* every task of the queue has been run and has completed
Done(q) == ~q.scheduled /\ idle(q)

\* the results of the tasks of a queue, in submission order
Expected(q) == [p \in 1..Len(q.submitted) |-> TaskResult(q.submitted[p], TRUE)]

\* the chained tasks whose runner.run call is in flight
ChainedInFlight ==
    UNION {{t \in qs[i].running : isAsyncHandler(t)} : i \in QIds}

ChainStarted(k) == \E j \in 1..Len(runLog) : runLog[j] = k

ChainFailed(k) == \E i \in QIds : k \in qs[i].failed

HandlerCalled(k) == \E c \in 1..Len(handlerLog) : handlerLog[c].id = k

\* the chain has done everything it will ever do for the tasks appended so far
ChainQuiet == cur.q = 0 /\ ~(chainReady(chainState) /\ conts # <<>>)

\* C1: a group of M <= N succeeding tasks resolves with the array of the M
\* results in submission order, whatever the completion order
C1_GroupResultsInSubmissionOrder ==
    \A i \in QIds :
        (/\ qs[i].group
         /\ Len(qs[i].submitted) >= 1
         /\ Len(qs[i].submitted) <= concurrency
         /\ Done(qs[i])
         /\ qs[i].failed = {})
        => qs[i].outcome = Resolved(Arr(Expected(qs[i])))

\* C2: a single succeeding task resolves with its bare result, a collection
\* with the full array
C2_SingleResolvesBare ==
    \A i \in QIds :
        (Done(qs[i]) /\ qs[i].failed = {} /\ qs[i].submitted # <<>>)
        => IF qs[i].group
           THEN qs[i].outcome = Resolved(Arr(qs[i].results))
           ELSE qs[i].outcome = Resolved(TaskResult(qs[i].submitted[1], TRUE))

\* C3: when exactly one task of a group has failed, the promise of the group
\* is rejected with that task's error; it was not resolved before and is not
\* resolved by the later drain
C3_OneFailureRejects ==
    \A i \in QIds :
        \A p \in 1..Len(qs[i].submitted) :
            qs[i].failed = {qs[i].submitted[p].id}
            => qs[i].outcome = Rejected(RunnerError(qs[i].submitted[p]))

\* a group of two on two workers: the second task failed first, its sibling
\* succeeded afterwards, the queue has drained
C3_Witness ==
    \E i \in QIds :
        /\ qs[i].group
        /\ Len(qs[i].submitted) = 2
        /\ Done(qs[i])
        /\ qs[i].failed = {qs[i].submitted[2].id}
        /\ qs[i].results[1] = undefined
        /\ qs[i].outcome.state = "rejected"

\* C4: at most one chained task has its Runner call in flight
C4_OneChainedInFlight == Cardinality(ChainedInFlight) <= 1

\* two workers, a chained task in flight, the next one appended and waiting,
\* a direct task in flight at the same time
C4_Witness ==
    /\ concurrency > 1
    /\ Cardinality(ChainedInFlight) = 1
    /\ pending # <<>>
    /\ \E i \in QIds : \E t \in qs[i].running : ~isAsyncHandler(t)

\* C5: the Runner call of chained task k+1 begins only after the handler of
\* chained task k was called and has returned
C5_HandlerBeforeNextRun ==
    \A k \in 1..MaxChain :
        ChainStarted(k + 1) => (HandlerCalled(k) /\ cur.task.id # k)

\* task 1 failed, its handler was called, task 2 has started
C5_Witness ==
    /\ ChainFailed(1)
    /\ HandlerCalled(1)
    /\ ChainStarted(2)

\* C6: the Runner calls of chained tasks begin in the order of appending
C6_RunInAppendOrder == \A j \in 1..Len(runLog) : runLog[j] = j

\* every appended chained task has started, the last one is in flight
C6_Witness ==
    /\ Len(runLog) = MaxChain
    /\ ChainedInFlight # {}

\* C7: after a chained step failed every later appended step is still run
\* and its handler called (stated for the chain at rest)
C7_LaterStepsStillRun ==
    ChainQuiet =>
        \A j, k \in 1..nChain :
            (j < k /\ ChainFailed(j)) => (ChainStarted(k) /\ HandlerCalled(k))

\* C8: after a chained step failed no later step has its Runner call started
C8_LaterStepsSkipped ==
    \A j, k \in 1..nChain : (j < k /\ ChainFailed(j)) => ~ChainStarted(k)

\* the task that was appended as the k-th chained task, once it is processed
ChainQueue(k) ==
    CHOOSE i \in QIds : Len(qs[i].submitted) = 1 /\ qs[i].submitted[1].id = k

\* C9: on settlement the handler of a chained step is called as
\* handler(null, r) with the step's own result, or as handler(err) with the
\* step's own error and nothing else
C9_HandlerArguments ==
    \A c \in 1..Len(handlerLog) :
        LET h == handlerLog[c]
            task == qs[ChainQueue(h.id)].submitted[1]
        IN  (\A d \in 1..(c - 1) : handlerLog[d].id # h.id)
            => IF ChainFailed(h.id)
               THEN h = Call(h.id, 1, RunnerError(task), undefined)
               ELSE h = Call(h.id, 2, null, TaskResult(task, TRUE))

\* a handler was called with a parsed result, another one with an error
C9_Witness ==
    \E c, d \in 1..Len(handlerLog) :
        /\ handlerLog[c].argc = 2
        /\ handlerLog[c].data.type = "parsed"
        /\ handlerLog[d].argc = 1
        /\ handlerLog[d].err.type = "err"

\* C10: when every Runner call settles the pending list becomes empty again
C10_PendingDrains == []<>(pending = <<>>)

\* C11: an error thrown by a handler does not stop the chain: with the chain
\* at rest every appended chained task has had its Runner called and its
\* handler called
C11_HandlerThrowSwallowed ==
    ChainQuiet => \A k \in 1..nChain : ChainStarted(k) /\ HandlerCalled(k)

\* number of runner.run calls made for chained task k
RunCount(k) == Cardinality({j \in 1..Len(runLog) : runLog[j] = k})

\* C12: a call without callback returns the promise of a new queue and leaves
\* the pending list and the chain alone; a call with a callback returns the
\* instance, appends exactly one task (with its handler) to the pending list
\* and creates no queue; the Runner is called at most once for a chained task
C12_Routing ==
    /\ [][/\ (nDirect' # nDirect) =>
                /\ returned' = ReturnPromise(Len(qs'))
                /\ Len(qs') = Len(qs) + 1
                /\ pending' = pending
                /\ conts' = conts
                /\ chainState' = chainState
          /\ (nChain' # nChain) =>
                /\ returned' = ReturnThis
                /\ Len(pending') = Len(pending) + 1
                /\ SubSeq(pending', 1, Len(pending)) = pending
                /\ isAsyncHandler(pending'[Len(pending')])
                /\ pending'[Len(pending')].id = nChain'
                /\ qs' = qs
                /\ queues' = queues]_vars
    /\ [](\A k \in 1..MaxChain : RunCount(k) <= 1)

\* the latest call had a callback and returned the instance, its task waits
\* in the pending list; an earlier call without callback got its queue and an
\* earlier chained task has been handed to the Runner
C12_Witness ==
    /\ returned = ReturnThis
    /\ pending # <<>>
    /\ nDirect > 0
    /\ \E i \in QIds : ~qs[i].group /\ ~isAsyncHandler(qs[i].submitted[1])
    /\ runLog # <<>>

\* C13: a queue never has more than `concurrency` Runner calls in flight, and
\* a task beyond the first `concurrency` ones has started only after as many
\* earlier tasks of the queue completed
C13_ConcurrencyBound ==
    \A i \in QIds :
        /\ Cardinality(qs[i].running) <= concurrency
        /\ Len(Started(qs[i])) - Len(qs[i].results) <= concurrency
        /\ Len(Started(qs[i])) > concurrency => Len(qs[i].results) >= 1

\* all workers of a queue are busy and a task beyond the first `concurrency`
\* ones is among those in flight
C13_Witness ==
    \E i \in QIds :
        /\ Cardinality(qs[i].running) = concurrency
        /\ Len(Started(qs[i])) > concurrency
        /\ qs[i].submitted[Len(qs[i].submitted)] \in qs[i].running

InQueues(i) == \E k \in 1..Len(queues) : queues[k] = i

\* C14: a queue is in this.queues from its submission until its promise
\* settles (drain or error) and not afterwards; when every submission has
\* settled the list is empty
C14_QueueRegistration ==
    /\ \A i \in QIds : InQueues(i) <=> qs[i].outcome.state = "pending"
    /\ \A k \in 1..Len(queues) : queues[k] \in QIds
    /\ (\A i \in QIds : qs[i].outcome.state # "pending") => queues = <<>>

\* several submissions, one settled by error and one by drain, none left in
\* the list
C14_Witness ==
    /\ Len(qs) >= 2
    /\ queues = <<>>
    /\ \E i \in QIds : qs[i].outcome.state = "rejected"
    /\ \E i \in QIds : qs[i].outcome.state = "resolved"

\* every task of queue i has been handed to the Runner and has completed
AllRan(i) == i \in QIds /\ Done(qs[i]) /\ Len(qs[i].results) = Len(qs[i].submitted)

\* C15: after a task of a group failed no sibling is dropped: each one is
\* completed, in flight, or waiting only because every worker is busy, and
\* (every Runner call settling) all of them eventually complete
C15_SiblingsStillRun ==
    /\ [](\A i \in QIds :
            qs[i].failed # {} =>
              /\ Len(qs[i].results) + Cardinality(qs[i].running)
                    + Len(qs[i].waiting) = Len(qs[i].submitted)
              /\ qs[i].waiting # <<>> =>
                    Cardinality(qs[i].running) = concurrency)
    /\ \A i \in 1..(MaxDirect + MaxChain) :
          (i \in QIds /\ qs[i].failed # {}) ~> AllRan(i)

\* one worker, a group of two: the first task failed, the second one was
\* started afterwards and completed with its result
C15_Witness ==
    \E i \in QIds :
        /\ concurrency = 1
        /\ Len(qs[i].submitted) = 2
        /\ qs[i].failed = {qs[i].submitted[1].id}
        /\ qs[i].results = <<undefined, TaskResult(qs[i].submitted[2], TRUE)>>

\* C16: an empty group never reaches the Runner; after the deferred turn of
\* its push its promise is resolved with undefined or with an empty array and
\* its queue is out of this.queues
C16_EmptyGroup ==
    \A i \in QIds :
        (qs[i].group /\ qs[i].submitted = <<>>) =>
            /\ qs[i].running = {}
            /\ qs[i].results = <<>>
            /\ Started(qs[i]) = <<>>
            /\ qs[i].outcome.state # "rejected"
            /\ ~qs[i].scheduled =>
                  /\ qs[i].outcome \in {Resolved(undefined), Resolved(Arr(<<>>))}
                  /\ ~InQueues(i)

\* an empty group has resolved and is deregistered while the queue of a
\* chained task is still registered
C16_Witness ==
    \E i \in QIds :
        /\ qs[i].group
        /\ qs[i].submitted = <<>>
        /\ qs[i].outcome.state = "resolved"
        /\ ~InQueues(i)
        /\ queues # <<>>

\* C17: the continuations still to run captured exactly the tasks of the
\* pending list, in the same order, so a continuation shifts the task it
\* captured and never finds the list empty; a handler is only called with the
\* outcome of its own task's Runner call
C17_NextIsTask ==
    /\ conts = pending
    /\ cur.q # 0 => (cur.next = cur.task /\ qs[cur.q].submitted = <<cur.task>>)
    /\ \A c \in 1..Len(handlerLog) :
          /\ handlerLog[c].argc = 2 => handlerLog[c].data.id = handlerLog[c].id
          /\ handlerLog[c].argc = 1 => handlerLog[c].err.id = handlerLog[c].id

\* the second continuation is running with the second task, after the
\* handler of the first task was called
C17_Witness ==
    /\ cur.q # 0
    /\ cur.task.id = 2
    /\ cur.next.id = 2
    /\ HandlerCalled(1)

\* number of calls of the handler of chained task k
HandlerCalls(k) == Cardinality({c \in 1..Len(handlerLog) : handlerLog[c].id = k})

\* C18: the handler of a chained task is never called twice, and with the
\* chain at rest it has been called once
C18_HandlerOnce ==
    \A k \in 1..nChain :
        /\ HandlerCalls(k) <= 1
        /\ ChainQuiet => HandlerCalls(k) = 1

\* C19: the promise of a non-empty group settles (every Runner call
\* settling), and settles once: the first failure of the group rejects it
\* with that task's error, and no later error or drain changes the outcome
C19_SettlesOnce ==
    /\ [][\A i \in QIds :
            /\ qs[i].outcome.state # "pending" => qs'[i].outcome = qs[i].outcome
            /\ (qs[i].failed = {} /\ qs'[i].failed # {}) =>
                  \E p \in 1..Len(qs[i].submitted) :
                      /\ qs'[i].failed = {qs[i].submitted[p].id}
                      /\ qs'[i].outcome = Rejected(RunnerError(qs[i].submitted[p]))]_vars
    /\ [](\A i \in QIds :
            /\ qs[i].failed # {} => qs[i].outcome.state = "rejected"
            /\ (Done(qs[i]) /\ qs[i].submitted # <<>>) =>
                  qs[i].outcome.state # "pending")
    /\ \A i \in 1..(MaxDirect + MaxChain) :
          (i \in QIds /\ qs[i].submitted # <<>>)
              ~> (i \in QIds /\ qs[i].outcome.state # "pending")

\* both tasks of a group failed, the second one first; the queue has drained
\* and the promise is still rejected with the error of the second task
C19_Witness ==
    \E i \in QIds :
        /\ Len(qs[i].submitted) = 2
        /\ Cardinality(qs[i].failed) = 2
        /\ Done(qs[i])
        /\ qs[i].outcome = Rejected(RunnerError(qs[i].submitted[2]))

====
